---- MODULE Spec2Model ----
(***************************************************************************)
(* A model of the deque-lang virtual machine (src/src/main.rs).            *)
(*                                                                         *)
(* The machine loads a whitespace-tokenised program text into a vector of  *)
(* instructions and a label table (VM::load_program), then runs a          *)
(* fetch/dispatch loop over it (VM::execute) against one double-ended      *)
(* queue of i64.  Strings of the program are TLA+ strings, taken apart     *)
(* with Len and SubSeq; the queue is a sequence whose first element is the *)
(* front (Left end) and whose last element is the back (Right end).  The   *)
(* instruction pointer is 0-based as in the source; program[ip + 1] is the *)
(* instruction self.program[self.ip].                                      *)
(***************************************************************************)
EXTENDS Integers, Sequences, FiniteSets, TLC

VARIABLES
    text,       \* the program text handed to load_program
    tokens,     \* the tokens load_program has split the text into
    pc,         \* position of main: "new", "exec" or "done"
    ip,         \* VM.ip
    program,    \* VM.program
    labels,     \* VM.labels, a function from label names to addresses
    data,       \* VM.data, front first
    out,        \* the lines written to standard output so far
    result,     \* how the process ended: kind "Running", "Ok", "Err" or "Panic"
    last,       \* the instruction that was dispatched last, with the state it saw
    prior,      \* the instruction that was dispatched before that one
    steps       \* number of instructions dispatched so far

vars == <<text, tokens, pc, ip, program, labels, data, out, result, last, prior, steps>>

-----------------------------------------------------------------------------
(* Bounds of the model.                                                    *)

\* Longest run of operand pushes that opens a generated program.
MaxPush == 2
\* Generated integer literals range over -1 .. MaxLit.
MaxLit == 2
\* Longest generated token sequence of the loader family.
MaxLen == 3
\* Instructions dispatched in one run of execute.
MaxSteps == 140
\* Values of the store are followed while their magnitude is at most MaxAbs
\* (far inside i64, so that no arithmetic of the model wraps).
MaxAbs == 100000

-----------------------------------------------------------------------------
(* Strings.                                                                *)

Char(s, i) == SubSeq(s, i, i)

starts_with(s, p) == Len(s) >= Len(p) /\ SubSeq(s, 1, Len(p)) = p

ends_with(s, p) == Len(s) >= Len(p) /\ SubSeq(s, Len(s) - Len(p) + 1, Len(s)) = p

\* char::is_whitespace, the Unicode White_Space property: U+0009 to U+000D,
\* U+0020, U+0085, U+00A0, U+1680, and the spaces and separators from U+2000
\* on.  U+000B, U+0085, U+00A0 and U+1680 stand in the set as the characters
\* themselves; a TLA+ string cannot hold the characters from U+2000 on.
is_whitespace(c) ==
    c \in {" ", "\t", "\n", "\r", "\f", "", "", " ", " "}

UpperCase == "ABCDEFGHIJKLMNOPQRSTUVWXYZ"
LowerCase == "abcdefghijklmnopqrstuvwxyz"
Digits == "0123456789"

\* Position of character c in string s, 0 when it does not occur.
RECURSIVE IndexFrom(_, _, _)
IndexFrom(c, s, i) ==
    IF i > Len(s) THEN 0
    ELSE IF Char(s, i) = c THEN i
    ELSE IndexFrom(c, s, i + 1)

IndexOf(c, s) == IndexFrom(c, s, 1)

to_ascii_lowercase_char(c) ==
    LET i == IndexOf(c, UpperCase)
    IN  IF i = 0 THEN c ELSE Char(LowerCase, i)

RECURSIVE to_ascii_lowercase(_)
to_ascii_lowercase(s) ==
    IF s = "" THEN ""
    ELSE to_ascii_lowercase_char(Char(s, 1)) \o to_ascii_lowercase(Tail(s))

\* str::split_whitespace: the maximal runs of non-whitespace, in order.
RECURSIVE SplitFrom(_, _, _, _)
SplitFrom(s, i, cur, acc) ==
    IF i > Len(s)
    THEN IF cur = "" THEN acc ELSE Append(acc, cur)
    ELSE IF is_whitespace(Char(s, i))
         THEN SplitFrom(s, i + 1, "", IF cur = "" THEN acc ELSE Append(acc, cur))
         ELSE SplitFrom(s, i + 1, cur \o Char(s, i), acc)

split_whitespace(s) == SplitFrom(s, 1, "", <<>>)

\* str::trim
RECURSIVE trim_start(_)
trim_start(s) ==
    IF s # "" /\ is_whitespace(Char(s, 1)) THEN trim_start(Tail(s)) ELSE s

RECURSIVE trim_end(_)
trim_end(s) ==
    IF s # "" /\ is_whitespace(Char(s, Len(s)))
    THEN trim_end(SubSeq(s, 1, Len(s) - 1))
    ELSE s

trim(s) == trim_end(trim_start(s))

\* Display of an i64 ("{}"): decimal digits, '-' in front of a negative value.
RECURSIVE NatToStr(_)
NatToStr(n) ==
    IF n < 10 THEN Char(Digits, n + 1)
    ELSE NatToStr(n \div 10) \o Char(Digits, (n % 10) + 1)

IntToStr(n) == IF n < 0 THEN "-" \o NatToStr(0 - n) ELSE NatToStr(n)

IsDigit(c) == IndexOf(c, Digits) # 0

RECURSIVE AllDigits(_)
AllDigits(s) == s = "" \/ (IsDigit(Char(s, 1)) /\ AllDigits(Tail(s)))

RECURSIVE DigitsValue(_, _)
DigitsValue(s, acc) ==
    IF s = "" THEN acc
    ELSE DigitsValue(Tail(s), acc * 10 + (IndexOf(Char(s, 1), Digits) - 1))

\* str::parse::<i64>: an optional sign, then one or more decimal digits.  The
\* texts of the model hold literals of a few digits, far from i64's limits.
ParseEmptyMsg == "cannot parse integer from empty string"
ParseDigitMsg == "invalid digit found in string"

parse_i64(s) ==
    IF s = "" THEN [ok |-> FALSE, val |-> 0, err |-> ParseEmptyMsg]
    ELSE LET signed == Char(s, 1) \in {"+", "-"}
             body   == IF signed THEN Tail(s) ELSE s
         IN  IF body = "" \/ ~AllDigits(body)
             THEN [ok |-> FALSE, val |-> 0, err |-> ParseDigitMsg]
             ELSE [ok  |-> TRUE,
                   val |-> IF Char(s, 1) = "-"
                           THEN 0 - DigitsValue(body, 0)
                           ELSE DigitsValue(body, 0),
                   err |-> ""]

-----------------------------------------------------------------------------
(* Direction.                                                              *)

Left == "Left"
Right == "Right"
Direction == {Left, Right}

invert(dir) == IF dir = Left THEN Right ELSE Left

-----------------------------------------------------------------------------
(* The loader.                                                             *)

Instruction(op, dir) == [op |-> op, direction |-> dir]

\* The filter_map closure of load_program: the instruction of one token.  A
\* token with neither marker makes the closure panic.
Wellformed(inst) ==
    starts_with(inst, "!") \/ ends_with(inst, "!") \/ ends_with(inst, ":")

Convert(inst) ==
    IF starts_with(inst, "!")
    THEN Instruction(Tail(inst), Left)
    ELSE IF ends_with(inst, "!")
    THEN Instruction(SubSeq(inst, 1, Len(inst) - 1), Right)
    ELSE Instruction("label", Left)

\* The label table as it would be with the index after the token as address.
RECURSIVE LabelsUpTo_following(_, _, _)
LabelsUpTo_following(toks, n, acc) ==
    IF n = 0 THEN acc
    ELSE LET prev == LabelsUpTo_following(toks, n - 1, acc)
             inst == toks[n]
         IN  IF ends_with(inst, ":")
             THEN (to_ascii_lowercase(SubSeq(inst, 1, Len(inst) - 1)) :> n)
                  @@ prev
             ELSE prev

\* The map closure of load_program over tokens 1 .. n (addresses 0 .. n - 1):
\* every token ending in ':' inserts its lowercased name with its address,
\* a later insertion replacing an earlier one of the same name.
RECURSIVE LabelsUpTo(_, _, _)
LabelsUpTo(toks, n, acc) ==
    IF n = 0 THEN acc
    ELSE LET prev == LabelsUpTo(toks, n - 1, acc)
             inst == toks[n]
         IN  IF ends_with(inst, ":")
             THEN (to_ascii_lowercase(SubSeq(inst, 1, Len(inst) - 1)) :> (n - 1))
                  @@ prev
             ELSE prev

\* Index of the first token that makes the loader panic, 0 when none does.
RECURSIVE FirstMalformedFrom(_, _)
FirstMalformedFrom(toks, i) ==
    IF i > Len(toks) THEN 0
    ELSE IF ~Wellformed(toks[i]) THEN i
    ELSE FirstMalformedFrom(toks, i + 1)

FirstMalformed(toks) == FirstMalformedFrom(toks, 1)

-----------------------------------------------------------------------------
(* The data store.                                                         *)

PopFrontMsg == "Could not pop from front of deque."
PopBackMsg == "Could not pop from back of deque."


\* pop as it would be with unwrap_or(0) in place of ok_or(..): an empty store
\* yields 0 instead of an error.
pop_or_zero(d, dir) ==
    IF d = <<>>
    THEN [ok |-> TRUE, val |-> 0, data |-> d, err |-> ""]
    ELSE IF dir = Left
    THEN [ok |-> TRUE, val |-> Head(d), data |-> Tail(d), err |-> ""]
    ELSE [ok |-> TRUE, val |-> d[Len(d)],
          data |-> SubSeq(d, 1, Len(d) - 1), err |-> ""]

pop(d, dir) ==
    IF dir = Left
    THEN IF d = <<>>
         THEN [ok |-> FALSE, val |-> 0, data |-> d, err |-> PopFrontMsg]
         ELSE [ok |-> TRUE, val |-> Head(d), data |-> Tail(d), err |-> ""]
    ELSE IF d = <<>>
         THEN [ok |-> FALSE, val |-> 0, data |-> d, err |-> PopBackMsg]
         ELSE [ok |-> TRUE, val |-> d[Len(d)],
               data |-> SubSeq(d, 1, Len(d) - 1), err |-> ""]
\* push that ignores the direction.
push_always_front(d, dir, val) == <<val>> \o d


push(d, dir, val) == IF dir = Left THEN <<val>> \o d ELSE Append(d, val)

-----------------------------------------------------------------------------
(* Outcomes of a handler: the store it leaves, what it printed, and        *)
(* whether it returned Ok, returned Err(msg) or panicked.                  *)

Done(d) == [kind |-> "Ok", msg |-> "", data |-> d, emit |-> <<>>]
Emit(d, line) == [kind |-> "Ok", msg |-> "", data |-> d, emit |-> <<line>>]
Fail(msg, d) == [kind |-> "Err", msg |-> msg, data |-> d, emit |-> <<>>]
Panic(msg, d) == [kind |-> "Panic", msg |-> msg, data |-> d, emit |-> <<>>]
\* A result the model does not follow: a value beyond MaxAbs.
Beyond(d) == [kind |-> "Beyond", msg |-> "", data |-> d, emit |-> <<>>]

Bool(b) == IF b THEN 1 ELSE 0

-----------------------------------------------------------------------------
(* Bit operations of i64, on two's complement of any width: for values     *)
(* inside i64 they are those of the 64-bit registers.                      *)

\* Width of the store's integers (i64).
I64Bits == 64

OrTable == <<<<0, 1>>, <<1, 1>>>>
AndTable == <<<<0, 0>>, <<0, 1>>>>
XorTable == <<<<0, 1>>, <<1, 0>>>>

RECURSIVE BitOp(_, _, _)
BitOp(table, a, b) ==
    IF a \in {0, -1} /\ b \in {0, -1}
    THEN 0 - table[(0 - a) + 1][(0 - b) + 1]
    ELSE 2 * BitOp(table, a \div 2, b \div 2) + table[(a % 2) + 1][(b % 2) + 1]

BitNot(a) == (0 - a) - 1

RECURSIVE Pow2(_)
Pow2(n) == IF n = 0 THEN 1 ELSE 2 * Pow2(n - 1)

\* b >> n for 0 <= n < 64: the arithmetic shift, rounding towards minus infinity.
RECURSIVE ShiftRight(_, _)
ShiftRight(b, n) ==
    IF n = 0 \/ b \in {0, -1} THEN b ELSE ShiftRight(b \div 2, n - 1)

\* b << n for 0 <= n < 64 and |b| <= MaxAbs: bits shifted out of the register
\* are lost, so the result is 0 when the low 64 - n bits of b are 0; otherwise
\* it is b * 2^n, followed while it stays within MaxAbs.
RECURSIVE ShiftLeftWithin(_, _)
ShiftLeftWithin(b, n) ==
    IF n = 0 THEN [within |-> TRUE, val |-> b]
    ELSE IF 2 * b > MaxAbs \/ 2 * b < 0 - MaxAbs THEN [within |-> FALSE, val |-> 0]
    ELSE ShiftLeftWithin(2 * b, n - 1)

ShiftLeft(b, n) ==
    IF b = 0 THEN [within |-> TRUE, val |-> 0]
    ELSE IF n > 33 /\ b % Pow2(I64Bits - n) = 0 THEN [within |-> TRUE, val |-> 0]
    ELSE ShiftLeftWithin(b, n)

ShlOverflowMsg == "attempt to shift left with overflow"
ShrOverflowMsg == "attempt to shift right with overflow"

-----------------------------------------------------------------------------
(* The opcode handlers.  Each takes the store and the instruction's        *)
(* direction and gives the outcome of the method of the same name; a `?`   *)
(* that fails leaves the store as the pops before it left it.              *)
\* add that puts its first operand back when the second pop fails.
add_restoring(d, dir) ==
    LET a == pop(d, dir)
    IN  IF ~a.ok THEN Fail(a.err, a.data)
        ELSE LET b == pop(a.data, dir)
             IN  IF ~b.ok THEN Fail(b.err, push(b.data, dir, a.val))
                 ELSE Done(push(b.data, dir, a.val + b.val))


add(d, dir) ==
    LET a == pop(d, dir)
    IN  IF ~a.ok THEN Fail(a.err, a.data)
        ELSE LET b == pop(a.data, dir)
             IN  IF ~b.ok THEN Fail(b.err, b.data)
                 ELSE Done(push(b.data, dir, a.val + b.val))


\* sub with its operands exchanged: a - b.
sub_swapped(d, dir) ==
    LET a == pop(d, dir)
    IN  IF ~a.ok THEN Fail(a.err, a.data)
        ELSE LET b == pop(a.data, dir)
             IN  IF ~b.ok THEN Fail(b.err, b.data)
                 ELSE Done(push(b.data, dir, a.val - b.val))

sub(d, dir) ==
    LET a == pop(d, dir)
    IN  IF ~a.ok THEN Fail(a.err, a.data)
        ELSE LET b == pop(a.data, dir)
             IN  IF ~b.ok THEN Fail(b.err, b.data)
                 ELSE Done(push(b.data, dir, b.val - a.val))
\* swap that pushes the two elements back in the order they had.
swap_noop(d, dir) ==
    LET a == pop(d, dir)
    IN  IF ~a.ok THEN Fail(a.err, a.data)
        ELSE LET b == pop(a.data, dir)
             IN  IF ~b.ok THEN Fail(b.err, b.data)
                 ELSE Done(push(push(b.data, dir, b.val), dir, a.val))


swap(d, dir) ==
    LET a == pop(d, dir)
    IN  IF ~a.ok THEN Fail(a.err, a.data)
        ELSE LET b == pop(a.data, dir)
             IN  IF ~b.ok THEN Fail(b.err, b.data)
                 ELSE Done(push(push(b.data, dir, a.val), dir, b.val))
\* move that pushes the element back on the end it came from.
move_same_end(d, dir) ==
    LET a == pop(d, dir)
    IN  IF ~a.ok THEN Fail(a.err, a.data)
        ELSE Done(push(a.data, dir, a.val))


move_(d, dir) ==
    LET a == pop(d, dir)
    IN  IF ~a.ok THEN Fail(a.err, a.data)
        ELSE Done(push(a.data, invert(dir), a.val))

over(d, dir) ==
    LET a == pop(d, dir)
    IN  IF ~a.ok THEN Fail(a.err, a.data)
        ELSE LET b == pop(a.data, dir)
             IN  IF ~b.ok THEN Fail(b.err, b.data)
                 ELSE Done(push(push(push(b.data, dir, b.val), dir, a.val),
                                dir, b.val))

drop(d, dir) ==
    LET a == pop(d, dir)
    IN  IF ~a.ok THEN Fail(a.err, a.data) ELSE Done(a.data)

\* b >> a and b << a take the shift amount a as it is when 0 <= a < 64.  For
\* any other amount the build decides: with overflow checks the operator
\* panics, without them the amount is reduced modulo 64.
shr(d, dir) ==
    LET a == pop(d, dir)
    IN  IF ~a.ok THEN {Fail(a.err, a.data)}
        ELSE LET b == pop(a.data, dir)
             IN  IF ~b.ok THEN {Fail(b.err, b.data)}
                 ELSE LET shifted ==
                              Done(push(b.data, dir,
                                        ShiftRight(b.val, a.val % I64Bits)))
                      IN  IF a.val >= 0 /\ a.val < I64Bits
                          THEN {shifted}
                          ELSE {Panic(ShrOverflowMsg, b.data), shifted}

shl(d, dir) ==
    LET a == pop(d, dir)
    IN  IF ~a.ok THEN {Fail(a.err, a.data)}
        ELSE LET b == pop(a.data, dir)
             IN  IF ~b.ok THEN {Fail(b.err, b.data)}
                 ELSE LET r == ShiftLeft(b.val, a.val % I64Bits)
                          shifted == IF r.within
                                     THEN Done(push(b.data, dir, r.val))
                                     ELSE Beyond(b.data)
                      IN  IF a.val >= 0 /\ a.val < I64Bits
                          THEN {shifted}
                          ELSE {Panic(ShlOverflowMsg, b.data), shifted}

eq(d, dir) ==
    LET a == pop(d, dir)
    IN  IF ~a.ok THEN Fail(a.err, a.data)
        ELSE LET b == pop(a.data, dir)
             IN  IF ~b.ok THEN Fail(b.err, b.data)
                 ELSE Done(push(b.data, dir, Bool(a.val = b.val)))

or(d, dir) ==
    LET a == pop(d, dir)
    IN  IF ~a.ok THEN Fail(a.err, a.data)
        ELSE LET b == pop(a.data, dir)
             IN  IF ~b.ok THEN Fail(b.err, b.data)
                 ELSE Done(push(b.data, dir, BitOp(OrTable, a.val, b.val)))

and(d, dir) ==
    LET a == pop(d, dir)
    IN  IF ~a.ok THEN Fail(a.err, a.data)
        ELSE LET b == pop(a.data, dir)
             IN  IF ~b.ok THEN Fail(b.err, b.data)
                 ELSE Done(push(b.data, dir, BitOp(AndTable, a.val, b.val)))

xor(d, dir) ==
    LET a == pop(d, dir)
    IN  IF ~a.ok THEN Fail(a.err, a.data)
        ELSE LET b == pop(a.data, dir)
             IN  IF ~b.ok THEN Fail(b.err, b.data)
                 ELSE Done(push(b.data, dir, BitOp(XorTable, a.val, b.val)))

not(d, dir) ==
    LET a == pop(d, dir)
    IN  IF ~a.ok THEN Fail(a.err, a.data)
        ELSE Done(push(a.data, dir, BitNot(a.val)))

greater(d, dir) ==
    LET a == pop(d, dir)
    IN  IF ~a.ok THEN Fail(a.err, a.data)
        ELSE LET b == pop(a.data, dir)
             IN  IF ~b.ok THEN Fail(b.err, b.data)
                 ELSE Done(push(b.data, dir, Bool(a.val > b.val)))

less(d, dir) ==
    LET a == pop(d, dir)
    IN  IF ~a.ok THEN Fail(a.err, a.data)
        ELSE LET b == pop(a.data, dir)
             IN  IF ~b.ok THEN Fail(b.err, b.data)
                 ELSE Done(push(b.data, dir, Bool(a.val < b.val)))


\* greater_eq with the strict comparison of greater.
greater_eq_strict(d, dir) ==
    LET a == pop(d, dir)
    IN  IF ~a.ok THEN Fail(a.err, a.data)
        ELSE LET b == pop(a.data, dir)
             IN  IF ~b.ok THEN Fail(b.err, b.data)
                 ELSE Done(push(b.data, dir, Bool(a.val > b.val)))

greater_eq(d, dir) ==
    LET a == pop(d, dir)
    IN  IF ~a.ok THEN Fail(a.err, a.data)
        ELSE LET b == pop(a.data, dir)
             IN  IF ~b.ok THEN Fail(b.err, b.data)
                 ELSE Done(push(b.data, dir, Bool(a.val >= b.val)))

less_eq(d, dir) ==
    LET a == pop(d, dir)
    IN  IF ~a.ok THEN Fail(a.err, a.data)
        ELSE LET b == pop(a.data, dir)
             IN  IF ~b.ok THEN Fail(b.err, b.data)
                 ELSE Done(push(b.data, dir, Bool(a.val <= b.val)))
\* dup that pushes the popped element back once.
dup_once(d, dir) ==
    LET a == pop(d, dir)
    IN  IF ~a.ok THEN Fail(a.err, a.data)
        ELSE Done(push(a.data, dir, a.val))


dup(d, dir) ==
    LET a == pop(d, dir)
    IN  IF ~a.ok THEN Fail(a.err, a.data)
        ELSE Done(push(push(a.data, dir, a.val), dir, a.val))

\* A line of standard output: the instruction that wrote it, its text, and
\* for printc the code of the character written (a as u8).
Line(k, s, c) == [k |-> k, s |-> s, c |-> c]

\* Number of values of a u8.
U8Range == 256

print(d, dir) ==
    LET a == pop(d, dir)
    IN  IF ~a.ok THEN Fail(a.err, a.data)
        ELSE Emit(a.data, Line("print", IntToStr(a.val), -1))

printc(d, dir) ==
    LET a == pop(d, dir)
    IN  IF ~a.ok THEN Fail(a.err, a.data)
        ELSE Emit(a.data, Line("printc", "", a.val % U8Range))

\* What read_line gives: an I/O error, or a line (empty at end of input).
IoErrorMsg == "stream did not contain valid UTF-8"
Inputs ==
    {[io_ok |-> FALSE, line |-> ""]}
    \cup {[io_ok |-> TRUE, line |-> l] : l \in {"", "7\n", " -1 \n", "x\n", "\n"}}

read(d, dir, inp) ==
    IF ~inp.io_ok THEN Fail(IoErrorMsg, d)
    ELSE LET a == parse_i64(trim(inp.line))
         IN  IF ~a.ok THEN Fail(a.err, d) ELSE Done(push(d, dir, a.val))

\* Code points of the characters the model's input lines hold.
CharCode(c) ==
    CASE c = " " -> 32
      [] c = "-" -> 45
      [] c = "x" -> 120
      [] IsDigit(c) -> 47 + IndexOf(c, Digits)

readc(d, dir, inp) ==
    IF ~inp.io_ok THEN Fail(IoErrorMsg, d)
    ELSE LET t == trim(inp.line)
             a == IF t = "" THEN CharCode(" ") ELSE CharCode(Char(t, 1))
         IN  Done(push(d, dir, a))

RECURSIVE Dots(_)
Dots(d) ==
    IF d = <<>> THEN ""
    ELSE (IF Head(d) = 1 THEN "*" ELSE " ") \o Dots(Tail(d))

trace(d) == Emit(d, Line("trace", Dots(d), -1))


\* jmp followed by the loop's increment, as it would be without `continue`.
jmp_then_increment(d, dir, cur) ==
    LET a == pop(d, dir)
    IN  IF ~a.ok THEN [out |-> Fail(a.err, a.data), ip |-> cur]
        ELSE [out |-> Done(a.data), ip |-> a.val + 1]

jmp(d, dir, cur) ==
    LET a == pop(d, dir)
    IN  IF ~a.ok THEN [out |-> Fail(a.err, a.data), ip |-> cur]
        ELSE [out |-> Done(a.data), ip |-> a.val]

\* The flag `taken` is the bool jmpif returns: execute skips its increment of
\* the instruction pointer when it is true.
jmpif(d, dir, cur) ==
    LET addr == pop(d, dir)
    IN  IF ~addr.ok
        THEN [out |-> Fail(addr.err, addr.data), ip |-> cur, taken |-> FALSE]
        ELSE LET cond == pop(addr.data, dir)
             IN  IF ~cond.ok
                 THEN [out |-> Fail(cond.err, cond.data), ip |-> cur,
                       taken |-> FALSE]
                 ELSE IF cond.val = 1
                 THEN [out |-> Done(cond.data), ip |-> addr.val, taken |-> TRUE]
                 ELSE [out |-> Done(cond.data), ip |-> cur, taken |-> FALSE]

\* The "exit" arm of execute.
ExitMsg(code) == "Exit code " \o IntToStr(code)


\* exit that drops the code it popped and always returns Ok(()).
exit_ignores_code(d, dir) ==
    LET code == pop(d, dir)
    IN  IF ~code.ok THEN Fail(code.err, code.data) ELSE Done(code.data)

exit(d, dir) ==
    LET code == pop(d, dir)
    IN  IF ~code.ok THEN Fail(code.err, code.data)
        ELSE IF code.val # 0 THEN Fail(ExitMsg(code.val), code.data)
        ELSE Done(code.data)

\* The last arm of execute: an operation that is no opcode name is an integer
\* literal, or else a key of the label table, looked up as it is written.
UnknownLabelMsg(val) == "Label " \o val \o " does not exist."


\* The last arm with the label table consulted before the integer parse.
operand_label_first(val, d, dir, table) ==
    IF val \in DOMAIN table THEN Done(push(d, dir, table[val]))
    ELSE LET n == parse_i64(val)
         IN  IF n.ok THEN Done(push(d, dir, n.val))
             ELSE Fail(UnknownLabelMsg(val), d)

operand(val, d, dir, table) ==
    LET n == parse_i64(val)
    IN  IF n.ok THEN Done(push(d, dir, n.val))
        ELSE IF val \in DOMAIN table THEN Done(push(d, dir, table[val]))
        ELSE Fail(UnknownLabelMsg(val), d)

\* The operation strings execute matches before its last arm.
HandlerOps ==
    {"add", "sub", "swap", "move", "over", "drop", "shr", "shl", "eq", "or",
     "and", "xor", "not", ">", "<", ">=", "<=", "dup", "print", "printc",
     "trace"}
ReadOps == {"read", "readc"}
OpcodeNames == HandlerOps \cup ReadOps \cup {"jmp", "jmpif", "exit", "label"}

\* The arms of execute that call one handler and fall through to the
\* increment of the instruction pointer: the outcomes of the handler of op.
Handler(op, d, dir) ==
    CASE op = "add" -> {add(d, dir)}
      [] op = "sub" -> {sub(d, dir)}
      [] op = "swap" -> {swap(d, dir)}
      [] op = "move" -> {move_(d, dir)}
      [] op = "over" -> {over(d, dir)}
      [] op = "drop" -> {drop(d, dir)}
      [] op = "shr" -> shr(d, dir)
      [] op = "shl" -> shl(d, dir)
      [] op = "eq" -> {eq(d, dir)}
      [] op = "or" -> {or(d, dir)}
      [] op = "and" -> {and(d, dir)}
      [] op = "xor" -> {xor(d, dir)}
      [] op = "not" -> {not(d, dir)}
      [] op = ">" -> {greater(d, dir)}
      [] op = "<" -> {less(d, dir)}
      [] op = ">=" -> {greater_eq(d, dir)}
      [] op = "<=" -> {less_eq(d, dir)}
      [] op = "dup" -> {dup(d, dir)}
      [] op = "print" -> {print(d, dir)}
      [] op = "printc" -> {printc(d, dir)}
      [] op = "trace" -> {trace(d)}

-----------------------------------------------------------------------------
(* Program texts.                                                          *)

RECURSIVE JoinTokens(_)
JoinTokens(toks) ==
    IF toks = <<>> THEN ""
    ELSE IF Len(toks) = 1 THEN toks[1]
    ELSE toks[1] \o " " \o JoinTokens(Tail(toks))

SeqsUpTo(S, n) == UNION {[1..k -> S] : k \in 0..n}

BothEnds(ops) == {"!" \o op : op \in ops} \cup {op \o "!" : op \in ops}

Literals == {IntToStr(n) : n \in -1..MaxLit}

\* The tokens that push vals, in order, on dir's end.
PushAll(vals, dir) ==
    [i \in 1..Len(vals) |-> IF dir = Left THEN "!" \o vals[i] ELSE vals[i] \o "!"]

\* A run of operand pushes on one end, one instruction on either end, and
\* two instructions after it.
OpcodePrograms ==
    {PushAll(vals, dir) \o <<t>> \o <<"!1", "print!">> :
        vals \in SeqsUpTo(Literals, MaxPush),
        dir \in Direction,
        t \in BothEnds(OpcodeNames \ {"label"})}

\* Label definitions, references to them in either case, labels named like
\* an opcode or an integer, tokens that carry both markers, a token with no
\* marker, and a jump.
LoaderTokens ==
    {"Ab:", "ab:", "!Ab", "!ab", "AB!", "7:", "!7", "add:", "!add", "!b:",
     "ab", "jmp!"}

LoaderPrograms == SeqsUpTo(LoaderTokens, MaxLen)

CountdownText ==
    "!10\nloop: !dup !0 !>= !end !jmpif\n!dup !print\n!1 !sub\n!loop !jmp\nend:"

CrossDirectionText == "3! !5 !2 sub! !add !print"

\* Tokens separated by U+00A0, U+0085, U+000B and U+1680.
SeparatorsText == "!1 !2!add!print "

Scenarios ==
    {CountdownText,
     CrossDirectionText,
     SeparatorsText,
     "!5 !3 !> !print",
     "!0 !exit",
     "!1 !exit",
     "!9 !jmp !1 !print",
     "!2 !9 !jmpif !1 !print"}

\* At most one push on either end, then a run of pushes on one end and as
\* many prints from that end.
LifoPrograms ==
    {pre \o PushAll(vals, dir)
         \o [i \in 1..Len(vals) |-> IF dir = Left THEN "!print" ELSE "print!"] :
        pre \in SeqsUpTo(BothEnds(Literals), 1),
        vals \in SeqsUpTo(Literals, MaxPush) \ {<<>>},
        dir \in Direction}

\* A store of up to MaxPush + 1 values, then one of the opcodes that rearrange
\* the store, twice on one end.
RearrangePrograms ==
    {PushAll(vals, Left) \o <<t, t>> :
        vals \in SeqsUpTo(Literals, MaxPush + 1),
        t \in BothEnds({"swap", "move", "dup"})}

Programs ==
    Scenarios
    \cup {JoinTokens(p) :
              p \in OpcodePrograms \cup LoaderPrograms \cup LifoPrograms
                    \cup RearrangePrograms}

-----------------------------------------------------------------------------
(* The state machine: main constructs the VM, loads the text and executes. *)

Running == [kind |-> "Running", msg |-> ""]
Ok == [kind |-> "Ok", msg |-> ""]
NoInstruction == [op |-> "", direction |-> Left, ip |-> -1, data |-> <<>>]

Init ==
    /\ text \in Programs
    /\ tokens = <<>>
    /\ pc = "new"
    /\ ip = 0
    /\ program = <<>>
    /\ labels = <<>>
    /\ data = <<>>
    /\ out = <<>>
    /\ result = Running
    /\ last = NoInstruction
    /\ prior = NoInstruction
    /\ steps = 0

LoaderPanicMsg == "explicit panic"
\* load_program as it would be if label definitions produced no instruction.
Load_dropping_labels ==
    /\ pc = "new"
    /\ tokens' = split_whitespace(text)
    /\ LET toks == tokens'
           bad  == FirstMalformed(toks)
           kept == SelectSeq(toks, LAMBDA t : starts_with(t, "!") \/ ~ends_with(t, ":"))
       IN  IF bad = 0
           THEN /\ labels' = LabelsUpTo(toks, Len(toks), labels)
                /\ program' = [i \in 1..Len(kept) |-> Convert(kept[i])]
                /\ pc' = "exec"
                /\ result' = result
           ELSE /\ labels' = LabelsUpTo(toks, bad - 1, labels)
                /\ program' = program
                /\ pc' = "done"
                /\ result' = [kind |-> "Panic", msg |-> LoaderPanicMsg]
    /\ UNCHANGED <<text, ip, data, out, last, prior, steps>>

\* VM::load_program.  The iterator is lazy: map and filter_map run token by
\* token, so a panic at token i comes after the labels of the tokens before it
\* are inserted and before self.program is assigned.
Load ==
    /\ pc = "new"
    /\ tokens' = split_whitespace(text)
    /\ LET toks == tokens'
           bad  == FirstMalformed(toks)
       IN  IF bad = 0
           THEN /\ labels' = LabelsUpTo(toks, Len(toks), labels)
                /\ program' = [i \in 1..Len(toks) |-> Convert(toks[i])]
                /\ pc' = "exec"
                /\ result' = result
           ELSE /\ labels' = LabelsUpTo(toks, bad - 1, labels)
                /\ program' = program
                /\ pc' = "done"
                /\ result' = [kind |-> "Panic", msg |-> LoaderPanicMsg]
    /\ UNCHANGED <<text, ip, data, out, last, prior, steps>>

InWindow(d) == \A i \in 1..Len(d) : d[i] <= MaxAbs /\ d[i] >= 0 - MaxAbs

\* The loop condition of execute holds and the fetch is inside the vector.
CanFetch ==
    /\ pc = "exec"
    /\ ip >= 0
    /\ ip < Len(program)
    /\ steps < MaxSteps

Current == program[ip + 1]

Dispatched ==
    /\ last' = [op |-> Current.op, direction |-> Current.direction,
                ip |-> ip, data |-> data]
    /\ prior' = last
    /\ steps' = steps + 1

\* What an outcome r of the current instruction does to the machine: Ok
\* goes on at next; Err and a panic end execute where it stands.
Settle(r, next) ==
    /\ r.kind # "Beyond"
    /\ InWindow(r.data)
    /\ data' = r.data
    /\ out' = out \o r.emit
    /\ IF r.kind = "Ok"
       THEN ip' = next /\ pc' = "exec" /\ result' = result
       ELSE ip' = ip /\ pc' = "done" /\ result' = [kind |-> r.kind, msg |-> r.msg]
    /\ Dispatched
    /\ UNCHANGED <<text, tokens, program, labels>>

\* while self.ip < program_len fails: execute returns Ok(()).
Halt ==
    /\ pc = "exec"
    /\ ip >= Len(program)
    /\ pc' = "done"
    /\ result' = Ok
    /\ UNCHANGED <<text, tokens, ip, program, labels, data, out, last, prior, steps>>

\* self.ip as usize for a negative ip: 2^64 + ip = 18446744073709551616 + ip,
\* in decimal.  The sum is taken on the last nine digits, which stay nine
\* digits for every ip the model follows (ip >= -MaxAbs).
UsizeOfNegative(i) == "18446744073" \o NatToStr(709551616 + i)

\* self.program[self.ip as usize] with a negative ip: the cast gives an index
\* beyond any vector, and the bounds check of the index panics.
IndexPanicMsg(len, index) ==
    "index out of bounds: the len is " \o NatToStr(len)
        \o " but the index is " \o index

IndexPanic ==
    /\ pc = "exec"
    /\ ip < 0
    /\ ip < Len(program)
    /\ pc' = "done"
    /\ result' = [kind |-> "Panic",
                   msg |-> IndexPanicMsg(Len(program), UsizeOfNegative(ip))]
    /\ UNCHANGED <<text, tokens, ip, program, labels, data, out, last, prior, steps>>

ExecHandler ==
    /\ CanFetch
    /\ Current.op \in HandlerOps
    /\ \E r \in Handler(Current.op, data, Current.direction) : Settle(r, ip + 1)

ExecRead ==
    /\ CanFetch
    /\ Current.op \in ReadOps
    /\ \E inp \in Inputs :
           Settle(IF Current.op = "read"
                  THEN read(data, Current.direction, inp)
                  ELSE readc(data, Current.direction, inp), ip + 1)

ExecJmp ==
    /\ CanFetch
    /\ Current.op = "jmp"
    /\ LET j == jmp(data, Current.direction, ip) IN Settle(j.out, j.ip)

ExecJmpif ==
    /\ CanFetch
    /\ Current.op = "jmpif"
    /\ LET j == jmpif(data, Current.direction, ip)
       IN  Settle(j.out, IF j.taken THEN j.ip ELSE j.ip + 1)

\* "exit" returns from execute whatever it popped: Ok(()) for 0.
ExecExit ==
    /\ CanFetch
    /\ Current.op = "exit"
    /\ LET r == exit(data, Current.direction)
       IN  /\ data' = r.data
           /\ result' = IF r.kind = "Ok" THEN Ok ELSE [kind |-> r.kind, msg |-> r.msg]
    /\ pc' = "done"
    /\ Dispatched
    /\ UNCHANGED <<text, tokens, ip, program, labels, out>>

\* The label arm as it would be if it skipped the increment of ip.
ExecLabel_continue ==
    /\ CanFetch
    /\ Current.op = "label"
    /\ Settle(Done(data), ip)


ExecLabel ==
    /\ CanFetch
    /\ Current.op = "label"
    /\ Settle(Done(data), ip + 1)

ExecOperand ==
    /\ CanFetch
    /\ Current.op \notin OpcodeNames
    /\ Settle(operand(Current.op, data, Current.direction, labels), ip + 1)

Next ==
    \/ Load
    \/ Halt
    \/ IndexPanic
    \/ ExecHandler
    \/ ExecRead
    \/ ExecJmp
    \/ ExecJmpif
    \/ ExecExit
    \/ ExecLabel
    \/ ExecOperand

Spec == Init /\ [][Next]_vars

-----------------------------------------------------------------------------
(* Properties.  `last` holds the instruction dispatched last together with *)
(* the store and the instruction pointer it found, so a state right after  *)
(* an instruction shows both sides of its effect.                          *)

\* The k-th value from the end dir of store d, and d without the k values
\* nearest that end.
EndValue(d, dir, k) == IF dir = Left THEN d[k] ELSE d[Len(d) - k + 1]
Without(d, dir, k) ==
    IF dir = Left THEN SubSeq(d, k + 1, Len(d)) ELSE SubSeq(d, 1, Len(d) - k)

IsUnderflow(r) == r.kind = "Err" /\ r.msg \in {PopFrontMsg, PopBackMsg}

Printed(lines) == [i \in 1..Len(lines) |-> Line("print", lines[i], -1)]

\* C1: the instruction pointer is never used to index the program outside
\* 0 .. len - 1: whenever the loop condition lets a fetch happen the pointer
\* is at least 0, and no run ends in the panic of an out-of-range index.
FetchOnlyInsideProgram ==
    /\ (pc = "exec" /\ ip < Len(program)) => ip >= 0
    /\ ~(/\ result.kind = "Panic"
          /\ ip < 0
          /\ result.msg = IndexPanicMsg(Len(program), UsizeOfNegative(ip)))

\* C2: jmpif pops addr then cond from its end and sets the instruction
\* pointer to addr exactly when cond is nonzero; when cond is 0 the pointer
\* advances to the next instruction.
JmpifBranchesOnAnyNonzero ==
    (last.op = "jmpif" /\ Len(last.data) >= 2) =>
        LET addr == EndValue(last.data, last.direction, 1)
            cond == EndValue(last.data, last.direction, 2)
        IN  /\ cond # 0 => ip = addr
            /\ cond = 0 => ip = last.ip + 1

\* C3: a label reference is matched without regard to letter case: an
\* operand that is neither an opcode name nor an integer literal and whose
\* lowercased name is a defined label pushes that label's address instead
\* of failing.
LabelReferenceIgnoresCase ==
    (/\ last.op \notin OpcodeNames
     /\ ~parse_i64(last.op).ok
     /\ to_ascii_lowercase(last.op) \in DOMAIN labels) =>
        /\ result.kind # "Err"
        /\ data = push(last.data, last.direction,
                       labels[to_ascii_lowercase(last.op)])

Compare(op, x, y) ==
    CASE op = ">" -> x > y
      [] op = "<" -> x < y
      [] op = ">=" -> x >= y
      [] op = "<=" -> x <= y

\* C4: the comparisons compare in push order: with x pushed before y on the
\* same end, `>` leaves 1 if x > y and 0 otherwise (likewise <, >=, <=), and
\* the program `!5 !3 !> !print` prints 1.
ComparisonsInPushOrder ==
    /\ (last.op \in {">", "<", ">=", "<="} /\ Len(last.data) >= 2) =>
           LET y == EndValue(last.data, last.direction, 1)
               x == EndValue(last.data, last.direction, 2)
           IN  data = push(Without(last.data, last.direction, 2), last.direction,
                           Bool(Compare(last.op, x, y)))
    /\ (text = "!5 !3 !> !print" /\ pc = "done") => out = Printed(<<"1">>)

CountdownLines == [i \in 1..10 |-> IntToStr(11 - i)]

\* C5 (as amended): the countdown program prints exactly 10, 9, ..., 1 in
\* that order, one value per print, and execute then returns Ok with the
\* counter 0 left on the store: the loop is left when the counter reaches 0,
\* before that value is printed, and the run ends well inside the step bound.
CountdownPrintsTenDownToOne ==
    text = CountdownText =>
        /\ \E k \in 0..Len(CountdownLines) :
               out = Printed(SubSeq(CountdownLines, 1, k))
        /\ result.kind \in {"Running", "Ok"}
        /\ steps < MaxSteps
        /\ pc = "done" =>
               /\ result = Ok
               /\ out = Printed(CountdownLines)
               /\ data = <<0>>

\* C5 (as claimed): the countdown program prints 10, 9, ..., 1, 0 and then
\* terminates successfully.
CountdownPrintsTenDownToZero ==
    (text = CountdownText /\ pc = "done") =>
        /\ result = Ok
        /\ out = Printed(CountdownLines \o <<"0">>)

CountdownFinished ==
    text = CountdownText /\ pc = "done" /\ Len(out) = Len(CountdownLines)

PoppingOps ==
    {"add", "sub", "swap", "move", "over", "drop", "dup", "shr", "shl", "eq",
     "or", "and", "xor", "not", ">", "<", ">=", "<=", "print", "printc", "jmp",
     "jmpif", "exit"}

\* Number of values each popping opcode takes off the store.
Pops(op) ==
    IF op \in {"move", "drop", "dup", "not", "print", "printc", "jmp", "exit"}
    THEN 1
    ELSE 2

\* C6: for every popping opcode and both directions, when the store holds
\* fewer values than the opcode pops, execute returns the underflow error of
\* that end (no panic), and the failing instruction is the last one executed.
UnderflowIsAnErrorValue ==
    (last.op \in PoppingOps /\ Len(last.data) < Pops(last.op)) =>
        /\ result = [kind |-> "Err",
                     msg  |-> IF last.direction = Left
                              THEN PopFrontMsg ELSE PopBackMsg]
        /\ pc = "done"
        /\ ip = last.ip
        /\ ~ENABLED Next

UnderflowOfSecondPop ==
    /\ last.op = "jmpif"
    /\ last.direction = Right
    /\ Len(last.data) = 1
    /\ IsUnderflow(result)
    /\ ip + 1 < Len(program)

\* C7 (as amended): `3! !5 !2 sub! !add !print` does not underflow.  The three
\* pushes leave the one shared store as 2, 5, 3 (front to back); sub! pops 3
\* and then 5 from the Right end and pushes 5 - 3 = 2 there; !add and !print
\* are executed, 4 is printed and execute returns Ok.
CrossDirectionSubtractSucceeds ==
    text = CrossDirectionText =>
        /\ result.kind \in {"Running", "Ok"}
        /\ last.op = "sub" =>
               /\ last.direction = Right
               /\ last.data = <<2, 5, 3>>
               /\ data = <<2, 2>>
               /\ pc = "exec"
        /\ pc = "done" =>
               /\ result = Ok
               /\ last.op = "print"
               /\ out = Printed(<<"4">>)
               /\ data = <<>>

\* C7 (as claimed): the program fails with the underflow error at sub!, so
\* that !add and !print are never executed and nothing is printed.
CrossDirectionSubtractUnderflows ==
    (text = CrossDirectionText /\ pc = "done") =>
        /\ IsUnderflow(result)
        /\ last.op = "sub"
        /\ out = <<>>

CrossDirectionFinished ==
    text = CrossDirectionText /\ pc = "done" /\ last.op = "print"

\* C8: exit pops one value and ends the run at once, whatever follows it: Ok
\* for code 0, an error carrying the code otherwise; and a run that ends Ok
\* either executed exit with code 0 or has its instruction pointer at or
\* beyond the end of the program.
ExitEndsTheRun ==
    /\ (last.op = "exit" /\ Len(last.data) >= 1) =>
           LET code == EndValue(last.data, last.direction, 1)
           IN  /\ pc = "done"
               /\ ~ENABLED Next
               /\ ip = last.ip
               /\ data = Without(last.data, last.direction, 1)
               /\ code = 0 => result = Ok
               /\ code # 0 =>
                      result = [kind |-> "Err",
                                msg  |-> "Exit code " \o IntToStr(code)]
    /\ result.kind = "Ok" =>
           \/ ip >= Len(program)
           \/ /\ last.op = "exit"
              /\ Len(last.data) >= 1
              /\ EndValue(last.data, last.direction, 1) = 0

ExitWithNonzeroCode ==
    /\ last.op = "exit"
    /\ result = [kind |-> "Err", msg |-> "Exit code 1"]
    /\ ip + 1 < Len(program)

\* C9: a token with neither a direction marker nor a label marker makes
\* loading fail with an error value, and no instruction is executed.
MalformedTokenIsAnErrorValue ==
    (pc # "new" /\ FirstMalformed(split_whitespace(text)) # 0) =>
        /\ pc = "done"
        /\ result.kind = "Err"
        /\ steps = 0

\* C10: an operation that is no opcode name is an operand push resolved as
\* an integer literal first and as a key of the label table second: a literal
\* pushes its value, otherwise a key of the table pushes its address,
\* otherwise execute fails with the unknown-label error and leaves the store
\* and the instruction pointer as they were; an instruction whose operation
\* is an opcode name runs that opcode even when a label has the same name.
OperandResolutionOrder ==
    /\ (steps > 0 /\ last.op \notin OpcodeNames) =>
           LET n == parse_i64(last.op)
           IN  IF n.ok
               THEN /\ data = push(last.data, last.direction, n.val)
                    /\ ip = last.ip + 1
                    /\ result.kind \in {"Running", "Ok"}
               ELSE IF last.op \in DOMAIN labels
               THEN /\ data = push(last.data, last.direction, labels[last.op])
                    /\ ip = last.ip + 1
                    /\ result.kind \in {"Running", "Ok"}
               ELSE /\ result = [kind |-> "Err",
                                 msg  |-> "Label " \o last.op \o " does not exist."]
                    /\ pc = "done"
                    /\ data = last.data
                    /\ ip = last.ip
    /\ (steps > 0 /\ last.op \in HandlerOps /\ last.op \in DOMAIN labels) =>
           \E r \in Handler(last.op, last.data, last.direction) :
               /\ data = r.data
               /\ r.kind = "Ok" => ip = last.ip + 1
               /\ r.kind # "Ok" => result = [kind |-> r.kind, msg |-> r.msg]

IntegerNamedLabelPushesValue ==
    /\ last.op = "7"
    /\ "7" \in DOMAIN labels
    /\ labels["7"] # 7
    /\ data = <<7>>
    /\ pc = "exec"

\* C11: jmp pops addr from its end and sets the instruction pointer to
\* exactly addr, whatever else the store holds and leaving it in place, and
\* the instruction fetched next is the one at addr.
JmpGoesToAddress ==
    /\ (last.op = "jmp" /\ Len(last.data) >= 1) =>
           /\ ip = EndValue(last.data, last.direction, 1)
           /\ data = Without(last.data, last.direction, 1)
           /\ result.kind # "Err"
    /\ (prior.op = "jmp" /\ Len(prior.data) >= 1) =>
           last.ip = EndValue(prior.data, prior.direction, 1)

JmpBackwardsOverOtherValues ==
    /\ prior.op = "jmp"
    /\ Len(prior.data) = 2
    /\ last.ip = EndValue(prior.data, prior.direction, 1)
    /\ last.ip < prior.ip

\* The loaded program is pushes of integer literals only, the last k of them
\* to dir's end, followed by k prints from dir's end.
PushesThenPrints(k, dir) ==
    /\ Len(program) >= 2 * k
    /\ \A i \in 1..(Len(program) - k) : parse_i64(program[i].op).ok
    /\ \A i \in (Len(program) - 2 * k + 1)..(Len(program) - k) :
           program[i].direction = dir
    /\ \A i \in (Len(program) - k + 1)..Len(program) :
           program[i] = Instruction("print", dir)

\* The k values pushed last, most recently pushed first, as print shows them.
PushedLastFirst(k) ==
    [i \in 1..k |-> IntToStr(parse_i64(program[Len(program) - k - i + 1].op).val)]

\* C12: for each direction and every run of pushes to that end with no pop
\* in between, the pops that follow from the same end return the values most
\* recently pushed first, whatever the store held before the run.
PopsReturnReversePushOrder ==
    \A dir \in Direction : \A k \in 1..Len(program) :
        (pc = "done" /\ PushesThenPrints(k, dir)) =>
            /\ result = Ok
            /\ out = Printed(PushedLastFirst(k))
            /\ Len(data) = Len(program) - 2 * k

TwoPushedOntoAnOccupiedEnd ==
    /\ pc = "done"
    /\ PushesThenPrints(2, Right)
    /\ Len(program) = 5
    /\ program[1].direction = Right
    /\ program[2].op # program[3].op
    /\ out = Printed(<<program[3].op, program[2].op>>)

\* C13: move on a non-empty store takes the element at its end and makes it
\* the element at the opposite end; the length and the order of the other
\* elements stay as they were, and a one-element store is unchanged.
MoveCarriesEndToOtherEnd ==
    (last.op = "move" /\ Len(last.data) >= 1) =>
        /\ result.kind # "Err"
        /\ Len(data) = Len(last.data)
        /\ EndValue(data, invert(last.direction), 1)
               = EndValue(last.data, last.direction, 1)
        /\ Without(data, invert(last.direction), 1)
               = Without(last.data, last.direction, 1)
        /\ Len(last.data) = 1 => data = last.data

MoveAcrossTwoOthers ==
    /\ last.op = "move"
    /\ last.direction = Right
    /\ Len(last.data) = 3
    /\ last.data[1] # last.data[2]
    /\ last.data[2] # last.data[3]
    /\ data = <<last.data[3], last.data[1], last.data[2]>>

\* C14: swap twice in a row on the same end of a store of at least two
\* elements leaves the store as it was before the first swap; one swap
\* exchanges the two elements nearest that end and leaves the others in place.
SwapTwiceRestores ==
    /\ (last.op = "swap" /\ Len(last.data) >= 2) =>
           /\ result.kind # "Err"
           /\ Len(data) = Len(last.data)
           /\ EndValue(data, last.direction, 1) = EndValue(last.data, last.direction, 2)
           /\ EndValue(data, last.direction, 2) = EndValue(last.data, last.direction, 1)
           /\ Without(data, last.direction, 2) = Without(last.data, last.direction, 2)
    /\ (/\ last.op = "swap" /\ prior.op = "swap"
        /\ last.direction = prior.direction
        /\ last.ip = prior.ip + 1
        /\ Len(prior.data) >= 2) =>
           data = prior.data

SwappedTwiceOverAThird ==
    /\ last.op = "swap" /\ prior.op = "swap"
    /\ last.direction = prior.direction
    /\ last.ip = prior.ip + 1
    /\ Len(prior.data) = 3
    /\ EndValue(prior.data, prior.direction, 1) # EndValue(prior.data, prior.direction, 2)
    /\ last.data # prior.data
    /\ data = prior.data

\* C15: dup on a non-empty store leaves the value at its end as it was, makes
\* the store one longer with the two elements nearest that end equal, and
\* leaves every other element unchanged.
DupCopiesTheEnd ==
    (last.op = "dup" /\ Len(last.data) >= 1) =>
        /\ result.kind # "Err"
        /\ Len(data) = Len(last.data) + 1
        /\ EndValue(data, last.direction, 1) = EndValue(last.data, last.direction, 1)
        /\ EndValue(data, last.direction, 2) = EndValue(data, last.direction, 1)
        /\ Without(data, last.direction, 1) = last.data

DupOverOtherValues ==
    /\ last.op = "dup"
    /\ last.direction = Right
    /\ Len(last.data) = 2
    /\ last.data[1] # last.data[2]
    /\ data = <<last.data[1], last.data[2], last.data[2]>>

\* load_program has run and built the program.
Loaded == pc # "new" /\ result # [kind |-> "Panic", msg |-> LoaderPanicMsg]

LabelName(inst) == to_ascii_lowercase(SubSeq(inst, 1, Len(inst) - 1))

\* Positions (from 1) of the tokens of toks that define the label name.
Definitions(toks, name) ==
    {i \in 1..Len(toks) : ends_with(toks[i], ":") /\ LabelName(toks[i]) = name}

LastDefinition(toks, name) ==
    CHOOSE i \in Definitions(toks, name) : \A j \in Definitions(toks, name) : j <= i

\* C16 as stated: the address of a label is the index following one of its
\* definition tokens.
LabelAddressFollowsItsToken ==
    Loaded =>
        \A name \in DOMAIN labels :
            \E i \in Definitions(tokens, name) : labels[name] = (i - 1) + 1

\* C16: after loading, the label table holds exactly the lowercased names of
\* the tokens ending in ':', each mapped to the index of its definition
\* token itself, the last definition of a name being the one recorded.
LabelAddressIsItsTokenIndex ==
    Loaded =>
        /\ DOMAIN labels =
               {LabelName(tokens[i]) :
                    i \in {j \in 1..Len(tokens) : ends_with(tokens[j], ":")}}
        /\ \A name \in DOMAIN labels :
               labels[name] = LastDefinition(tokens, name) - 1

TwoLabelsRecorded ==
    /\ Loaded
    /\ Len(program) = 3
    /\ DOMAIN labels = {"ab", "add"}
    /\ labels["ab"] = 0
    /\ labels["add"] = 2

\* C17: for every text that loads, every recorded label address indexes an
\* existing instruction, also for a label defined by the last token and for
\* a name defined more than once.
LabelAddressesIndexInstructions ==
    Loaded =>
        \A name \in DOMAIN labels :
            labels[name] >= 0 /\ labels[name] < Len(program)

LastTokenRedefinesLabel ==
    /\ Loaded
    /\ Len(program) = 3
    /\ Definitions(tokens, "ab") = {1, 3}
    /\ labels["ab"] = 2

\* C18: every token ending in ':' is a label definition, also one that
\* begins with '!': it records its label and compiles to the no-op "label"
\* instruction, and the program has one instruction per token at the token's
\* index.
ColonTokenIsAlwaysALabel ==
    Loaded =>
        /\ Len(program) = Len(tokens)
        /\ \A i \in 1..Len(tokens) :
               ends_with(tokens[i], ":") =>
                   /\ program[i] = Instruction("label", Left)
                   /\ LabelName(tokens[i]) \in DOMAIN labels

NoJumps == \A i \in 1..Len(program) : program[i].op \notin {"jmp", "jmpif"}

\* C19: a loaded program without jmp and jmpif terminates after at most
\* program-length instructions: the k-th instruction executed is the one at
\* index k - 1, each one either ends the run or moves the pointer on by one,
\* and until the run has ended a step is always possible.
StraightLineRunsEachInstructionOnce ==
    (Loaded /\ NoJumps) =>
        /\ steps <= Len(program)
        /\ steps > 0 => last.ip = steps - 1
        /\ pc = "exec" => ip = steps
        /\ (pc = "done" /\ result # Ok) => (steps > 0 /\ ip = last.ip)
        /\ (pc = "done" /\ result = Ok /\ last.op # "exit") => ip = Len(program)
        /\ pc # "done" => ENABLED Next

StraightLineRunComplete ==
    /\ Loaded /\ NoJumps
    /\ pc = "done" /\ result = Ok
    /\ Len(program) = 3
    /\ steps = Len(program)
    /\ program[1].op = "label"
    /\ Len(data) = 2

TwoOperandOps ==
    {"add", "sub", "swap", "over", "shr", "shl", "eq", "or", "and", "xor",
     ">", "<", ">=", "<=", "jmpif"}

\* C20: a two-operand opcode run on a store of exactly one element returns
\* the underflow error of its end with the store left empty (the operand
\* already popped is not put back) and the pointer at the failing instruction.
FailedOpcodeLeavesStoreEmpty ==
    (last.op \in TwoOperandOps /\ Len(last.data) = 1) =>
        /\ pc = "done"
        /\ result = [kind |-> "Err",
                     msg |-> IF last.direction = Left THEN PopFrontMsg ELSE PopBackMsg]
        /\ data = <<>>
        /\ ip = last.ip

AddLostItsOnlyOperand ==
    /\ last.op = "add"
    /\ last.direction = Right
    /\ last.data = <<2>>
    /\ data = <<>>
    /\ result = [kind |-> "Err", msg |-> PopBackMsg]
    /\ ip = last.ip

====
